---- MODULE Spec2Model ----
(***************************************************************************)
(* Model of guardianapi.py: one invocation reads ./config.ini, issues one  *)
(* HTTP GET to the Guardian search API, maps the results to three-field    *)
(* records, serialises them with json.dumps, reconciles the retention of   *)
(* a Kinesis stream and publishes one record.                              *)
(*                                                                         *)
(* Every invocation is a process p with a program counter pc[p]; the       *)
(* configuration file, the provider's reply and the stream are shared      *)
(* environment state.  Strings hold only characters json.dumps leaves      *)
(* unescaped (printable ASCII without the double quote and the backslash). *)
(***************************************************************************)
EXTENDS Integers, Sequences, FiniteSets, TLC

VARIABLES
    procs,       \* the invocations that run (one per started script or call)
    configFile,  \* content of ./config.ini: section -> (option -> string)
    httpReply,   \* what the search provider answers to the GET
    stream,      \* the Kinesis stream: [retention, records]
    pc,          \* pc[p]: position of invocation p in get_guardian_articles
    argv,        \* argv[p]: sys.argv of a command-line run, <<>> for a direct call
    args,        \* args[p]: the arguments get_guardian_articles was called with
    conf,        \* conf[p]: API_URL, API_KEY, AWS_* read from the configuration
    params,      \* params[p]: the query parameters of the GET
    response,    \* response[p]: the response object of requests.get
    toPost,      \* toPost[p]: article_details_to_post
    data,        \* data[p]: json.dumps(article_details_to_post)
    current,     \* current[p]: current_ret_period
    err,         \* err[p]: the exception the invocation raised
    failedAt,    \* failedAt[p]: the step whose failure ended the invocation
    log          \* log[p]: the remote calls invocation p issued, in order

vars == <<procs, configFile, httpReply, stream, pc, argv, args, conf, params,
          response, toPost, data, current, err, failedAt, log>>

(***************************************************************************)
(* Bounds and program constants.                                           *)
(***************************************************************************)
MaxResults == 2

PageSize == 10
HttpOk == 200

AllProcs == {1, 2}

\* Python's None (also JSON null once parsed).
None == "<None>"

\* Python's {} .
EmptyDict == [k \in {} |-> None]

\* dict.get(k, default)
Get(d, k, default) == IF k \in DOMAIN d THEN d[k] ELSE default

\* Python truthiness of a str-or-None value: `if x:` / `not x`.
Truthy(x) == x # None /\ x # ""

(***************************************************************************)
(* The configuration file.                                                 *)
(***************************************************************************)
ValidGuardian == [api_url |-> "https://content.guardianapis.com/search",
                  api_key |-> "dummy_api_key"]

ValidAws(ret) == [access_key |-> "dummy_access_key",
                  secret_key |-> "dummy_secret_key",
                  region |-> "eu-west-1",
                  retention_period |-> ret]

\* f without the key k.
Without(f, k) == [x \in DOMAIN f \ {k} |-> f[x]]

GuardianKeys == {"api_url", "api_key"}
AwsKeys == {"access_key", "secret_key", "region", "retention_period"}

ValidConfigs == {[guardian |-> ValidGuardian, aws |-> ValidAws(r)] : r \in {"24", "72"}}

ConfigFiles ==
    ValidConfigs
    \cup {[guardian |-> Without(ValidGuardian, k), aws |-> ValidAws("72")] : k \in GuardianKeys}
    \cup {[guardian |-> ValidGuardian, aws |-> Without(ValidAws("72"), k)] : k \in AwsKeys}
    \cup {[guardian |-> [ValidGuardian EXCEPT ![k] = ""], aws |-> ValidAws("72")] : k \in GuardianKeys}
    \cup {[guardian |-> ValidGuardian, aws |-> [ValidAws("72") EXCEPT ![k] = ""]] : k \in AwsKeys}
    \cup {[guardian |-> ValidGuardian, aws |-> ValidAws(r)] : r \in {"0", "abc"}}
    \cup {[aws |-> ValidAws("72")], EmptyDict}

\* An exception: its class, the literal text its message starts with, and the
\* values interpolated into the message (a status code, a cause or body text).
NoError == [cls |-> "", msg |-> "", status |-> 0, detail |-> ""]

Raise(cls, msg, status, detail) ==
    [cls |-> cls, msg |-> msg, status |-> status, detail |-> detail]

\* configparser's config.get(section, option): the value, or the error raised.
ConfigGet(cfg, section, option) ==
    IF section \notin DOMAIN cfg
    THEN [ok |-> FALSE, val |-> "", why |-> "No section: '" \o section \o "'"]
    ELSE IF option \notin DOMAIN cfg[section]
    THEN [ok |-> FALSE, val |-> "",
          why |-> "No option '" \o option \o "' in section: '" \o section \o "'"]
    ELSE [ok |-> TRUE, val |-> cfg[section][option], why |-> ""]

\* config.get(section, option, fallback=...)
ConfigGetFallback(cfg, section, option, fallback) ==
    IF ConfigGet(cfg, section, option).ok
    THEN ConfigGet(cfg, section, option).val
    ELSE fallback

\* int(s) on the numerals the configuration files hold.
ParseInt(s) ==
    CASE s = "0" -> [ok |-> TRUE, val |-> 0, why |-> ""]
      [] s = "24" -> [ok |-> TRUE, val |-> 24, why |-> ""]
      [] s = "72" -> [ok |-> TRUE, val |-> 72, why |-> ""]
      [] s = "168" -> [ok |-> TRUE, val |-> 168, why |-> ""]
      [] OTHER -> [ok |-> FALSE, val |-> 0,
                   why |-> "invalid literal for int() with base 10: '" \o s \o "'"]

\* The options read without a fallback, in the order the code reads them.
RequiredOptions == << <<"guardian", "api_url">>, <<"guardian", "api_key">>,
                      <<"aws", "access_key">>, <<"aws", "secret_key">>,
                      <<"aws", "retention_period">> >>

\* The first read of the second try block that raises, 0 if none does.
FirstMissing(cfg) ==
    LET bad == {i \in DOMAIN RequiredOptions :
                  ~ConfigGet(cfg, RequiredOptions[i][1], RequiredOptions[i][2]).ok}
    IN IF bad = {} THEN 0 ELSE CHOOSE i \in bad : \A j \in bad : i <= j

\* The outcome of lines 37-64: the settings, or the ValueError raised.
LoadConfig(cfg) ==
    LET m == FirstMissing(cfg)
        ret == ParseInt(ConfigGet(cfg, "aws", "retention_period").val)
        url == ConfigGet(cfg, "guardian", "api_url").val
        key == ConfigGet(cfg, "guardian", "api_key").val
        acc == ConfigGet(cfg, "aws", "access_key").val
        sec == ConfigGet(cfg, "aws", "secret_key").val
        none == [API_URL |-> "", API_KEY |-> "", AWS_ACCESS_KEY |-> "",
                 AWS_SECRET_KEY |-> "", AWS_REGION |-> "", AWS_RETENTION_PRIOD |-> 0]
    IN IF m # 0
       THEN [ok |-> FALSE, conf |-> none,
             err |-> Raise("ValueError", "Missing configuration parameters in config.ini-", 0,
                           ConfigGet(cfg, RequiredOptions[m][1], RequiredOptions[m][2]).why)]
       ELSE IF ~ret.ok
       THEN [ok |-> FALSE, conf |-> none,
             err |-> Raise("ValueError", "Missing configuration parameters in config.ini-", 0,
                           ret.why)]
       ELSE IF ~Truthy(key) \/ ~Truthy(acc) \/ ~Truthy(url) \/ ~Truthy(sec) \/ ret.val = 0
       THEN [ok |-> FALSE, conf |-> none,
             err |-> Raise("ValueError", "insufficient configuration parameters in config.ini",
                           0, "")]
       ELSE [ok |-> TRUE,
             conf |-> [API_URL |-> url, API_KEY |-> key, AWS_ACCESS_KEY |-> acc,
                       AWS_SECRET_KEY |-> sec,
                       AWS_REGION |-> ConfigGetFallback(cfg, "aws", "region", "us-east-1"),
                       AWS_RETENTION_PRIOD |-> ret.val],
             err |-> NoError]

(***************************************************************************)
(* The search provider's reply and the JSON conversions.                   *)
(***************************************************************************)
Tracked == <<"webPublicationDate", "webTitle", "webUrl">>

ItemFull == [webPublicationDate |-> "2024-01-01T12:00:00Z",
             webTitle |-> "Test Article",
             webUrl |-> "https://example.com/test-article",
             id |-> "world/2024/jan/01/test-article"]

ItemNoTitle == [webPublicationDate |-> "2024-02-02T08:30:00Z",
                webUrl |-> "https://example.com/b"]

ItemNullUrl == [webTitle |-> "Second", webUrl |-> None]

Items == {ItemFull, ItemNoTitle, ItemNullUrl}

ResultLists == UNION {[1..n -> Items] : n \in 0..MaxResults}

\* Parsed bodies: the documented shape, and the shapes with a key absent.
JsonBodies == {[response |-> [results |-> rs]] : rs \in ResultLists}
              \cup {[response |-> EmptyDict], EmptyDict}

\* A reply: status_code, text, and what response.json() does (parses: it
\* returns json; otherwise it raises a JSONDecodeError).
Replies ==
    {[status_code |-> HttpOk, text |-> "(json)", parses |-> TRUE, json |-> b] : b \in JsonBodies}
    \cup {[status_code |-> HttpOk, text |-> "<html>busy</html>", parses |-> FALSE, json |-> EmptyDict],
          [status_code |-> 500, text |-> "Internal Server Error", parses |-> FALSE, json |-> EmptyDict],
          [status_code |-> 404, text |-> "(json)", parses |-> TRUE, json |-> EmptyDict]}

NoResponse == [status_code |-> 0, text |-> "", parses |-> FALSE, json |-> EmptyDict]

\* response.json().get('response', {}).get('results', [])
Articles(body) == Get(Get(body, "response", EmptyDict), "results", <<>>)

\* One element of the list comprehension of lines 90-94.
MapItemDefaultEmpty(item) ==
    [webPublicationDate |-> Get(item, "webPublicationDate", ""),
     webTitle |-> Get(item, "webTitle", ""),
     webUrl |-> Get(item, "webUrl", "")]

MapItem(item) ==
    [webPublicationDate |-> Get(item, "webPublicationDate", None),
     webTitle |-> Get(item, "webTitle", None),
     webUrl |-> Get(item, "webUrl", None)]

MapArticles(articles) == [i \in DOMAIN articles |-> MapItem(articles[i])]

\* json.dumps of a str or None.
DumpsValue(v) == IF v = None THEN "null" ELSE "\"" \o v \o "\""

\* json.dumps of one mapped record: keys in insertion order, ", " and ": ".
DumpsRecord(r) ==
    "{\"webPublicationDate\": " \o DumpsValue(r.webPublicationDate)
    \o ", \"webTitle\": " \o DumpsValue(r.webTitle)
    \o ", \"webUrl\": " \o DumpsValue(r.webUrl) \o "}"

RECURSIVE JoinRecords(_)
JoinRecords(rs) ==
    IF rs = <<>> THEN ""
    ELSE IF Len(rs) = 1 THEN DumpsRecord(rs[1])
    ELSE DumpsRecord(rs[1]) \o ", " \o JoinRecords(Tail(rs))

\* json.dumps(article_details_to_post)
Dumps(rs) == "[" \o JoinRecords(rs) \o "]"

(***************************************************************************)
(* The remote calls an invocation issues.                                  *)
(***************************************************************************)
\* One issued call: the operation, its RetentionPeriodHours (adjust calls),
\* its Data (put_record) or region_name (boto3.client), whether it completed
\* without raising, and the stream's retention at the moment of the call.
Call(op, hours, payload, ok) ==
    [op |-> op, hours |-> hours, data |-> payload, ok |-> ok,
     atRetention |-> stream.retention]

Calls(p, op) == {i \in DOMAIN log[p] : log[p][i].op = op}

Issue(p, c) == log' = [log EXCEPT ![p] = Append(@, c)]

\* The invocation ends with the exception e, raised by the given step.
Fail(p, step, e) ==
    /\ pc' = [pc EXCEPT ![p] = "failed"]
    /\ err' = [err EXCEPT ![p] = e]
    /\ failedAt' = [failedAt EXCEPT ![p] = step]

\* Invocation p runs and stands at the given position.
At(p, label) == p \in procs /\ pc[p] = label

Goto(p, label) ==
    /\ pc' = [pc EXCEPT ![p] = label]
    /\ UNCHANGED <<err, failedAt>>

\* Causes a remote call can fail with (str of the underlying exception).
TransportFailures == {"ConnectionError", "ReadTimeout"}
StreamFailure == "ClientError"

AwsError(cause) == Raise("Exception", "AWS kinesis API call failure-", 0, cause)

(***************************************************************************)
(* Entry points.                                                           *)
(***************************************************************************)
CommandLines == {<<"guardianapi.py", "test", "test-stream">>,
                 <<"guardianapi.py", "test", "test-stream", "2024-01-01">>}

DateFroms == {None, "", "2024-01-01"}

NoArgs == [search_term |-> "", msg_broker_id |-> "", date_from |-> None]

\* main(search_term, stream_id, date_from=None): calls get_guardian_articles.
Main(p, search_term, stream_id, date_from) ==
    /\ args' = [args EXCEPT ![p] = [search_term |-> search_term,
                                    msg_broker_id |-> stream_id,
                                    date_from |-> date_from]]
    /\ Goto(p, "config")

\* python3 guardianapi.py ... : main(sys.argv[1], sys.argv[2])
RunScript(p) ==
    /\ At(p, "idle")
    /\ \E a \in CommandLines :
          /\ argv' = [argv EXCEPT ![p] = a]
          /\ Main(p, a[2], a[3], None)
    /\ UNCHANGED <<procs, configFile, httpReply, stream, conf, params, response,
                   toPost, data, current, log>>

\* A direct call of get_guardian_articles(search_term, msg_broker_id, date_from).
CallFunction(p) ==
    /\ At(p, "idle")
    /\ \E d \in DateFroms :
          args' = [args EXCEPT ![p] = [search_term |-> "test",
                                       msg_broker_id |-> "test-stream",
                                       date_from |-> d]]
    /\ Goto(p, "config")
    /\ UNCHANGED <<procs, configFile, httpReply, stream, argv, conf, params, response,
                   toPost, data, current, log>>

(***************************************************************************)
(* get_guardian_articles, step by step.                                    *)
(***************************************************************************)
\* Lines 37-64 without the emptiness test of lines 62-64.
ReadConfigUnchecked(p) ==
    /\ At(p, "config")
    /\ LET r == LoadConfig(configFile)
           raw == [API_URL |-> ConfigGetFallback(configFile, "guardian", "api_url", ""),
                   API_KEY |-> ConfigGetFallback(configFile, "guardian", "api_key", ""),
                   AWS_ACCESS_KEY |-> ConfigGetFallback(configFile, "aws", "access_key", ""),
                   AWS_SECRET_KEY |-> ConfigGetFallback(configFile, "aws", "secret_key", ""),
                   AWS_REGION |-> ConfigGetFallback(configFile, "aws", "region", "us-east-1"),
                   AWS_RETENTION_PRIOD |->
                       ParseInt(ConfigGetFallback(configFile, "aws", "retention_period", "")).val]
       IN IF r.ok \/ r.err.msg = "insufficient configuration parameters in config.ini"
          THEN conf' = [conf EXCEPT ![p] = raw] /\ Goto(p, "get")
          ELSE conf' = conf /\ Fail(p, "config", r.err)
    /\ UNCHANGED <<procs, configFile, httpReply, stream, argv, args, params, response,
                   toPost, data, current, log>>

\* Lines 37-64: read and validate the configuration.
ReadConfig(p) ==
    /\ At(p, "config")
    /\ LET r == LoadConfig(configFile)
       IN IF r.ok
          THEN conf' = [conf EXCEPT ![p] = r.conf] /\ Goto(p, "get")
          ELSE conf' = conf /\ Fail(p, "config", r.err)
    /\ UNCHANGED <<procs, configFile, httpReply, stream, argv, args, params, response,
                   toPost, data, current, log>>

\* Lines 67-73: the query parameters.
BuildParams(search_term, api_key, date_from) ==
    LET base == ("q" :> search_term) @@ ("api-key" :> api_key) @@ ("page-size" :> PageSize)
    IN IF Truthy(date_from) THEN base @@ ("from-date" :> date_from) ELSE base

\* Lines 66-79: build the parameters and issue the GET.
HttpGet(p) ==
    /\ At(p, "get")
    /\ params' = [params EXCEPT ![p] =
                     BuildParams(args[p].search_term, conf[p].API_KEY, args[p].date_from)]
    /\ \/ /\ Issue(p, Call("GET", 0, conf[p].API_URL, TRUE))
          /\ response' = [response EXCEPT ![p] = httpReply]
          /\ Goto(p, "response")
       \/ \E cause \in TransportFailures :
             /\ Issue(p, Call("GET", 0, conf[p].API_URL, FALSE))
             /\ response' = response
             /\ Fail(p, "request", Raise("Exception", "Guardian API request failed-", 0, cause))
    /\ UNCHANGED <<procs, configFile, httpReply, stream, argv, args, conf,
                   toPost, data, current>>

\* Lines 82-98 with the status test accepting every status below 500.
HandleResponseLenient(p) ==
    /\ At(p, "response")
    /\ IF response[p].status_code >= 500
       THEN /\ Fail(p, "status", Raise("Exception", "Guardian API request failed: ",
                                       response[p].status_code, response[p].text))
            /\ UNCHANGED <<toPost, data>>
       ELSE IF ~response[p].parses
       THEN /\ Fail(p, "parse", Raise("JSONDecodeError", "Expecting value", 0, ""))
            /\ UNCHANGED <<toPost, data>>
       ELSE /\ toPost' = [toPost EXCEPT ![p] = MapArticles(Articles(response[p].json))]
            /\ data' = [data EXCEPT ![p] = Dumps(MapArticles(Articles(response[p].json)))]
            /\ Goto(p, "client")
    /\ UNCHANGED <<procs, configFile, httpReply, stream, argv, args, conf, params,
                   response, current, log>>

\* Lines 82-98: the status test, response.json(), the mapping and json.dumps.
HandleResponse(p) ==
    /\ At(p, "response")
    /\ IF response[p].status_code # HttpOk
       THEN /\ Fail(p, "status", Raise("Exception", "Guardian API request failed: ",
                                       response[p].status_code, response[p].text))
            /\ UNCHANGED <<toPost, data>>
       ELSE IF ~response[p].parses
       THEN \* response.json() raises; nothing catches it.
            /\ Fail(p, "parse", Raise("JSONDecodeError", "Expecting value", 0, ""))
            /\ UNCHANGED <<toPost, data>>
       ELSE /\ toPost' = [toPost EXCEPT ![p] = MapArticles(Articles(response[p].json))]
            /\ data' = [data EXCEPT ![p] = Dumps(MapArticles(Articles(response[p].json)))]
            /\ Goto(p, "client")
    /\ UNCHANGED <<procs, configFile, httpReply, stream, argv, args, conf, params,
                   response, current, log>>

\* Lines 105-110: boto3.client('kinesis', ...).
CreateClient(p) ==
    /\ At(p, "client")
    /\ \/ /\ Issue(p, Call("client", 0, conf[p].AWS_REGION, TRUE))
          /\ Goto(p, "describe")
       \/ /\ Issue(p, Call("client", 0, conf[p].AWS_REGION, FALSE))
          /\ Fail(p, "stream", AwsError(StreamFailure))
    /\ UNCHANGED <<procs, configFile, httpReply, stream, argv, args, conf, params,
                   response, toPost, data, current>>

\* Describe with a failure of the read swallowed instead of raised.
DescribeSwallow(p) ==
    /\ At(p, "describe")
    /\ \/ /\ Issue(p, Call("describe_stream_summary", 0, "", TRUE))
          /\ current' = [current EXCEPT ![p] = stream.retention]
       \/ /\ Issue(p, Call("describe_stream_summary", 0, "", FALSE))
          /\ current' = current
    /\ Goto(p, "decrease")
    /\ UNCHANGED <<procs, configFile, httpReply, stream, argv, args, conf, params,
                   response, toPost, data>>

\* Lines 111-115: describe_stream_summary and the read of RetentionPeriodHours.
Describe(p) ==
    /\ At(p, "describe")
    /\ \/ /\ Issue(p, Call("describe_stream_summary", 0, "", TRUE))
          /\ current' = [current EXCEPT ![p] = stream.retention]
          /\ Goto(p, "decrease")
       \/ /\ Issue(p, Call("describe_stream_summary", 0, "", FALSE))
          /\ current' = current
          /\ Fail(p, "stream", AwsError(StreamFailure))
    /\ UNCHANGED <<procs, configFile, httpReply, stream, argv, args, conf, params,
                   response, toPost, data>>

\* The effect of an adjust call the stream accepted.
SetRetention(hours) == stream' = [stream EXCEPT !.retention = hours]

\* Lines 117-121: decrease the retention when the value read is above the desired one.
Decrease(p) ==
    /\ At(p, "decrease")
    /\ IF current[p] > conf[p].AWS_RETENTION_PRIOD
       THEN \/ /\ Issue(p, Call("decrease_stream_retention_period",
                                conf[p].AWS_RETENTION_PRIOD, "", TRUE))
               /\ SetRetention(conf[p].AWS_RETENTION_PRIOD)
               /\ Goto(p, "increase")
            \/ /\ Issue(p, Call("decrease_stream_retention_period",
                                conf[p].AWS_RETENTION_PRIOD, "", FALSE))
               /\ stream' = stream
               /\ Fail(p, "stream", AwsError(StreamFailure))
       ELSE /\ Goto(p, "increase")
            /\ UNCHANGED <<stream, log>>
    /\ UNCHANGED <<procs, configFile, httpReply, argv, args, conf, params,
                   response, toPost, data, current>>

\* The increase step with <= for <.
IncreaseOrEqual(p) ==
    /\ At(p, "increase")
    /\ IF current[p] <= conf[p].AWS_RETENTION_PRIOD
       THEN \/ /\ Issue(p, Call("increase_stream_retention_period",
                                conf[p].AWS_RETENTION_PRIOD, "", TRUE))
               /\ SetRetention(conf[p].AWS_RETENTION_PRIOD)
               /\ Goto(p, "put")
            \/ /\ Issue(p, Call("increase_stream_retention_period",
                                conf[p].AWS_RETENTION_PRIOD, "", FALSE))
               /\ stream' = stream
               /\ Fail(p, "stream", AwsError(StreamFailure))
       ELSE /\ Goto(p, "put")
            /\ UNCHANGED <<stream, log>>
    /\ UNCHANGED <<procs, configFile, httpReply, argv, args, conf, params,
                   response, toPost, data, current>>

\* The increase step deciding on the stream's retention of the moment (a re-read).
IncreaseReRead(p) ==
    /\ At(p, "increase")
    /\ IF stream.retention < conf[p].AWS_RETENTION_PRIOD
       THEN \/ /\ Issue(p, Call("increase_stream_retention_period",
                                conf[p].AWS_RETENTION_PRIOD, "", TRUE))
               /\ SetRetention(conf[p].AWS_RETENTION_PRIOD)
               /\ Goto(p, "put")
            \/ /\ Issue(p, Call("increase_stream_retention_period",
                                conf[p].AWS_RETENTION_PRIOD, "", FALSE))
               /\ stream' = stream
               /\ Fail(p, "stream", AwsError(StreamFailure))
       ELSE /\ Goto(p, "put")
            /\ UNCHANGED <<stream, log>>
    /\ UNCHANGED <<procs, configFile, httpReply, argv, args, conf, params,
                   response, toPost, data, current>>

\* Lines 123-127: increase the retention when the value read is below the desired one.
Increase(p) ==
    /\ At(p, "increase")
    /\ IF current[p] < conf[p].AWS_RETENTION_PRIOD
       THEN \/ /\ Issue(p, Call("increase_stream_retention_period",
                                conf[p].AWS_RETENTION_PRIOD, "", TRUE))
               /\ SetRetention(conf[p].AWS_RETENTION_PRIOD)
               /\ Goto(p, "put")
            \/ /\ Issue(p, Call("increase_stream_retention_period",
                                conf[p].AWS_RETENTION_PRIOD, "", FALSE))
               /\ stream' = stream
               /\ Fail(p, "stream", AwsError(StreamFailure))
       ELSE /\ Goto(p, "put")
            /\ UNCHANGED <<stream, log>>
    /\ UNCHANGED <<procs, configFile, httpReply, argv, args, conf, params,
                   response, toPost, data, current>>

\* The publish guarded by `if articles:`.
PutRecordSkipEmpty(p) ==
    /\ At(p, "put")
    /\ IF toPost[p] = <<>>
       THEN /\ Goto(p, "done")
            /\ UNCHANGED <<stream, log>>
       ELSE \/ /\ Issue(p, Call("put_record", 0, data[p], TRUE))
               /\ stream' = [stream EXCEPT !.records = Append(@, data[p])]
               /\ Goto(p, "done")
            \/ /\ Issue(p, Call("put_record", 0, data[p], FALSE))
               /\ stream' = stream
               /\ Fail(p, "stream", AwsError(StreamFailure))
    /\ UNCHANGED <<procs, configFile, httpReply, argv, args, conf, params,
                   response, toPost, data, current>>

\* The publish with the retention set back to the value read when it fails.
PutRecordCompensating(p) ==
    /\ At(p, "put")
    /\ \/ /\ Issue(p, Call("put_record", 0, data[p], TRUE))
          /\ stream' = [stream EXCEPT !.records = Append(@, data[p])]
          /\ Goto(p, "done")
       \/ /\ Issue(p, Call("put_record", 0, data[p], FALSE))
          /\ stream' = [stream EXCEPT !.retention = current[p]]
          /\ Fail(p, "stream", AwsError(StreamFailure))
    /\ UNCHANGED <<procs, configFile, httpReply, argv, args, conf, params,
                   response, toPost, data, current>>

\* Lines 129-138: put_record, then return True.
PutRecord(p) ==
    /\ At(p, "put")
    /\ \/ /\ Issue(p, Call("put_record", 0, data[p], TRUE))
          /\ stream' = [stream EXCEPT !.records = Append(@, data[p])]
          /\ Goto(p, "done")
       \/ /\ Issue(p, Call("put_record", 0, data[p], FALSE))
          /\ stream' = stream
          /\ Fail(p, "stream", AwsError(StreamFailure))
    /\ UNCHANGED <<procs, configFile, httpReply, argv, args, conf, params,
                   response, toPost, data, current>>

(***************************************************************************)
(* Specifications.                                                         *)
(***************************************************************************)
Retentions == {24, 72, 168}

Fresh ==
    /\ pc = [p \in AllProcs |-> "idle"]
    /\ argv = [p \in AllProcs |-> <<>>]
    /\ args = [p \in AllProcs |-> NoArgs]
    /\ conf = [p \in AllProcs |-> LoadConfig(EmptyDict).conf]
    /\ params = [p \in AllProcs |-> EmptyDict]
    /\ response = [p \in AllProcs |-> NoResponse]
    /\ toPost = [p \in AllProcs |-> <<>>]
    /\ data = [p \in AllProcs |-> ""]
    /\ current = [p \in AllProcs |-> 0]
    /\ err = [p \in AllProcs |-> NoError]
    /\ failedAt = [p \in AllProcs |-> ""]
    /\ log = [p \in AllProcs |-> <<>>]

\* One invocation, any configuration file, any reply, any retention.
Init ==
    /\ procs = {1}
    /\ configFile \in ConfigFiles
    /\ httpReply \in Replies
    /\ stream \in {[retention |-> r, records |-> <<>>] : r \in Retentions}
    /\ Fresh

\* Two invocations started against the same stream and configuration file.
RaceConfigs == ValidConfigs \cup {[aws |-> ValidAws("72")]}

RaceReplies == {r \in Replies : r.json \in {[response |-> [results |-> <<ItemFull>>]], EmptyDict}}

RaceInit ==
    /\ procs = AllProcs
    /\ configFile \in RaceConfigs
    /\ httpReply \in RaceReplies
    /\ stream \in {[retention |-> r, records |-> <<>>] : r \in Retentions}
    /\ Fresh

Next ==
    \/ \E p \in AllProcs : RunScript(p)
    \/ \E p \in AllProcs : CallFunction(p)
    \/ \E p \in AllProcs : ReadConfig(p)
    \/ \E p \in AllProcs : HttpGet(p)
    \/ \E p \in AllProcs : HandleResponse(p)
    \/ \E p \in AllProcs : CreateClient(p)
    \/ \E p \in AllProcs : Describe(p)
    \/ \E p \in AllProcs : Decrease(p)
    \/ \E p \in AllProcs : Increase(p)
    \/ \E p \in AllProcs : PutRecord(p)

Spec == Init /\ [][Next]_vars

RaceSpec == RaceInit /\ [][Next]_vars

(***************************************************************************)
(* Vocabulary of the properties.                                           *)
(***************************************************************************)
Desired(p) == conf[p].AWS_RETENTION_PRIOD

Decreases(p) == Calls(p, "decrease_stream_retention_period")
Increases(p) == Calls(p, "increase_stream_retention_period")
Adjusts(p) == Decreases(p) \cup Increases(p)
Puts(p) == Calls(p, "put_record")

StreamOps == {"client", "describe_stream_summary", "decrease_stream_retention_period",
              "increase_stream_retention_period", "put_record"}

\* describe_stream_summary returned and current_ret_period was read.
RetentionRead(p) == \E i \in Calls(p, "describe_stream_summary") : log[p][i].ok

\* The comparison of lines 117-127 is over: completed, or ended by a failing adjust call.
ComparisonOver(p) == RetentionRead(p) /\ pc[p] \notin {"decrease", "increase"}

\* The result items of the reply, as the provider sent them.
SentItems == Articles(httpReply.json)

\* The record the specification asks for, stated on the item alone.
ExpectedRecord(item) ==
    [f \in {Tracked[i] : i \in DOMAIN Tracked} |-> IF f \in DOMAIN item THEN item[f] ELSE None]

ExpectedPayload == Dumps([i \in DOMAIN SentItems |-> ExpectedRecord(SentItems[i])])

\* The payload the repository's test expects for its one-article reply.
TestPayload ==
    "[{\"webPublicationDate\": \"2024-01-01T12:00:00Z\", \"webTitle\": \"Test Article\", \"webUrl\": \"https://example.com/test-article\"}]"

(***************************************************************************)
(* C1: once the retention has been read and the comparison is over, the    *)
(* invocation has issued exactly one decrease call with the desired hours  *)
(* and no increase when current > desired, exactly one increase call with  *)
(* the desired hours and no decrease when current < desired, and neither   *)
(* when they are equal; no invocation issues both.                         *)
(***************************************************************************)
C1_RetentionReconciled ==
    \A p \in procs :
        /\ ~(Decreases(p) # {} /\ Increases(p) # {})
        /\ ComparisonOver(p) =>
              /\ current[p] > Desired(p) =>
                    /\ Cardinality(Decreases(p)) = 1
                    /\ \A i \in Decreases(p) : log[p][i].hours = Desired(p)
                    /\ Increases(p) = {}
              /\ current[p] < Desired(p) =>
                    /\ Cardinality(Increases(p)) = 1
                    /\ \A i \in Increases(p) : log[p][i].hours = Desired(p)
                    /\ Decreases(p) = {}
              /\ current[p] = Desired(p) => Adjusts(p) = {}

C1_Witness ==
    \E p \in procs :
        /\ pc[p] = "done"
        /\ current[p] > Desired(p)
        /\ Cardinality(Decreases(p)) = 1

(***************************************************************************)
(* C2: an invocation never issues more than one put_record; one that       *)
(* returned success issued exactly one, whose payload is the JSON array of *)
(* the mapped records of the reply in the reply's order ("[]" for no       *)
(* results), and that payload is the record on the stream; an invocation   *)
(* fails in the stream steps only when a stream call failed.               *)
(***************************************************************************)
C2_PublishOnce ==
    \A p \in procs :
        /\ Cardinality(Puts(p)) <= 1
        /\ pc[p] = "done" =>
              /\ Cardinality(Puts(p)) = 1
              /\ \A i \in Puts(p) :
                    /\ log[p][i].ok
                    /\ log[p][i].data = ExpectedPayload
                    /\ SentItems = <<>> => log[p][i].data = "[]"
                    /\ SentItems = <<ItemFull>> => log[p][i].data = TestPayload
                    /\ \E k \in DOMAIN stream.records : stream.records[k] = log[p][i].data
        /\ (pc[p] = "failed" /\ failedAt[p] = "stream") =>
              \E i \in DOMAIN log[p] : log[p][i].op \in StreamOps /\ ~log[p][i].ok

C2_Witness ==
    \E p \in procs :
        /\ pc[p] = "done"
        /\ Len(SentItems) = 2
        /\ SentItems[1] # SentItems[2]
        /\ \E i \in Puts(p) : log[p][i].data = ExpectedPayload

(***************************************************************************)
(* C3: with a required option missing or empty the invocation ends in the  *)
(* configuration step with a ValueError and has issued no call at all; a   *)
(* missing region alone is no failure and yields the region "us-east-1".   *)
(***************************************************************************)
RequiredMissingOrEmpty(cfg) ==
    \E i \in DOMAIN RequiredOptions :
        LET section == RequiredOptions[i][1]
            option == RequiredOptions[i][2]
        IN \/ section \notin DOMAIN cfg
           \/ option \notin DOMAIN cfg[section]
           \/ cfg[section][option] = ""

OnlyRegionMissing(cfg) ==
    /\ ~RequiredMissingOrEmpty(cfg)
    /\ cfg["aws"]["retention_period"] \in {"24", "72"}
    /\ "region" \notin DOMAIN cfg["aws"]

C3_ConfigChecked ==
    \A p \in procs :
        /\ failedAt[p] = "config" =>
              /\ pc[p] = "failed"
              /\ err[p].cls = "ValueError"
              /\ log[p] = <<>>
        /\ (RequiredMissingOrEmpty(configFile) /\ pc[p] \notin {"idle", "config"}) =>
              /\ pc[p] = "failed"
              /\ failedAt[p] = "config"
        /\ (OnlyRegionMissing(configFile) /\ pc[p] \notin {"idle", "config"}) =>
              /\ failedAt[p] # "config"
              /\ conf[p].AWS_REGION = "us-east-1"
              /\ \A i \in Calls(p, "client") : log[p][i].data = "us-east-1"

C3_Witness ==
    \E p \in procs :
        /\ failedAt[p] = "config"
        /\ "guardian" \in DOMAIN configFile
        /\ "api_key" \in DOMAIN configFile["guardian"]
        /\ configFile["guardian"]["api_key"] = ""
        /\ log[p] = <<>>

(***************************************************************************)
(* C4: once a response with a status other than 200 has been handled, the  *)
(* invocation has failed with the Exception "Guardian API request          *)
(* failed: " carrying the status code and the body text, and its only call *)
(* is the GET: no client, describe, adjust or put_record call.             *)
(***************************************************************************)
C4_Non200 ==
    \A p \in procs :
        (response[p] # NoResponse /\ response[p].status_code # HttpOk /\ pc[p] # "response") =>
            /\ pc[p] = "failed"
            /\ failedAt[p] = "status"
            /\ err[p] = Raise("Exception", "Guardian API request failed: ",
                              httpReply.status_code, httpReply.text)
            /\ \A i \in DOMAIN log[p] : log[p][i].op = "GET"
            /\ stream.records = <<>>

C4_Witness ==
    \E p \in procs :
        /\ failedAt[p] = "status"
        /\ err[p].status = 404
        /\ Len(log[p]) = 1

(***************************************************************************)
(* C5: every mapped record has exactly the three tracked fields; a field   *)
(* the item has keeps its exact value, a field the item lacks is None, and *)
(* no other field of the item is carried over.                             *)
(***************************************************************************)
Mapped(p) == data[p] # ""

C5_Mapping ==
    \A p \in procs :
        Mapped(p) =>
            /\ Len(toPost[p]) = Len(SentItems)
            /\ \A i \in DOMAIN SentItems :
                  /\ DOMAIN toPost[p][i] = {"webPublicationDate", "webTitle", "webUrl"}
                  /\ \A f \in DOMAIN toPost[p][i] :
                        /\ f \in DOMAIN SentItems[i] => toPost[p][i][f] = SentItems[i][f]
                        /\ f \notin DOMAIN SentItems[i] => toPost[p][i][f] = None

C5_Witness ==
    \E p \in procs :
        /\ Mapped(p)
        /\ SentItems = <<ItemFull, ItemNoTitle>>
        /\ toPost[p][1].webTitle = "Test Article"
        /\ toPost[p][2].webTitle = None

(***************************************************************************)
(* C6: a command-line run given a start date sends from-date equal to it;  *)
(* a run given none sends exactly q, api-key and page-size = 10.           *)
(***************************************************************************)
GetIssued(p) == Calls(p, "GET") # {}

C6_CommandLineStartDate ==
    \A p \in procs :
        (argv[p] # <<>> /\ GetIssued(p)) =>
            /\ params[p]["q"] = argv[p][2]
            /\ params[p]["page-size"] = PageSize
            /\ IF Len(argv[p]) >= 4
               THEN /\ "from-date" \in DOMAIN params[p]
                    /\ params[p]["from-date"] = argv[p][4]
               ELSE DOMAIN params[p] = {"q", "api-key", "page-size"}

(***************************************************************************)
(* C7: every failed invocation carries the error kind of the step that     *)
(* failed: configuration -> ConfigurationError, transport failure of the   *)
(* GET -> UpstreamRequestError, non-200 status -> UpstreamResponseError,   *)
(* stream call -> StreamOperationError; no other step's failure is         *)
(* reported with one of these kinds.                                       *)
(***************************************************************************)
\* The classes an exception of class cls is an instance of (Python's hierarchy).
Bases(cls) ==
    CASE cls = "JSONDecodeError" -> {"JSONDecodeError", "ValueError", "Exception"}
      [] cls = "ValueError" -> {"ValueError", "Exception"}
      [] cls = "Exception" -> {"Exception"}
      [] OTHER -> {}

\* The kind a caller can tell from an exception: ValueError (as the test of a
\* missing configuration asserts) is the configuration kind; the three plain
\* Exceptions differ by the text their message starts with.
ErrorKind(e) ==
    IF "ValueError" \in Bases(e.cls) THEN "ConfigurationError"
    ELSE IF e.msg = "Guardian API request failed-" THEN "UpstreamRequestError"
    ELSE IF e.msg = "Guardian API request failed: " THEN "UpstreamResponseError"
    ELSE IF e.msg = "AWS kinesis API call failure-" THEN "StreamOperationError"
    ELSE "unknown"

StepKind(step) ==
    CASE step = "config" -> "ConfigurationError"
      [] step = "request" -> "UpstreamRequestError"
      [] step = "status" -> "UpstreamResponseError"
      [] step = "stream" -> "StreamOperationError"
      [] OTHER -> "none"

C7_ErrorKinds ==
    \A p \in procs :
        pc[p] = "failed" => ErrorKind(err[p]) = StepKind(failedAt[p])

(***************************************************************************)
(* C8: fail-fast, no retries: every remote operation is issued at most     *)
(* once and in program order; a call that failed is the last call of its   *)
(* invocation, which has failed; an invocation that returned success       *)
(* issued put_record last, after a completed retention read, and none of   *)
(* its calls failed.                                                       *)
(***************************************************************************)
Rank(op) ==
    CASE op = "GET" -> 1
      [] op = "client" -> 2
      [] op = "describe_stream_summary" -> 3
      [] op = "decrease_stream_retention_period" -> 4
      [] op = "increase_stream_retention_period" -> 4
      [] op = "put_record" -> 5

C8_FailFast ==
    \A p \in procs :
        /\ \A i, j \in DOMAIN log[p] : i < j => Rank(log[p][i].op) < Rank(log[p][j].op)
        /\ \A i \in DOMAIN log[p] :
              ~log[p][i].ok => (i = Len(log[p]) /\ pc[p] = "failed")
        /\ pc[p] = "failed" => (log[p] = <<>> \/ ~log[p][Len(log[p])].ok
                                \/ failedAt[p] \in {"status", "parse"})
        /\ pc[p] = "done" =>
              /\ log[p] # <<>>
              /\ log[p][Len(log[p])].op = "put_record"
              /\ \A i \in DOMAIN log[p] : log[p][i].ok
              /\ RetentionRead(p)
              /\ GetIssued(p)

C8_Witness ==
    \E p \in procs :
        /\ pc[p] = "failed"
        /\ Len(log[p]) = 3
        /\ log[p][3].op = "describe_stream_summary"
        /\ ~log[p][3].ok

(***************************************************************************)
(* C9: when an adjust call succeeded and the following put_record failed,  *)
(* the invocation has failed, the stream's retention is the desired value  *)
(* and not the value read before, no record is on the stream, and          *)
(* put_record is the invocation's last call (nothing restores the          *)
(* retention).                                                             *)
(***************************************************************************)
AdjustSucceeded(p) == \E i \in Adjusts(p) : log[p][i].ok
PutFailed(p) == \E i \in Puts(p) : ~log[p][i].ok

C9_NotTransactional ==
    \A p \in procs :
        (AdjustSucceeded(p) /\ PutFailed(p)) =>
            /\ pc[p] = "failed"
            /\ failedAt[p] = "stream"
            /\ stream.retention = Desired(p)
            /\ stream.retention # current[p]
            /\ stream.records = <<>>
            /\ log[p][Len(log[p])].op = "put_record"

C9_Witness ==
    \E p \in procs :
        /\ AdjustSucceeded(p)
        /\ PutFailed(p)
        /\ pc[p] = "failed"
        /\ stream.retention = Desired(p)

(***************************************************************************)
(* C10: with two invocations on one stream, each adjust call is chosen     *)
(* from the invocation's own single read: an invocation whose read differs *)
(* from the desired value issues its increase or decrease whatever the     *)
(* stream's retention is by then, and never reads again.  The witness is   *)
(* the race: an adjust call issued from a stale read, at a moment when the *)
(* stream's retention already equals the desired value.                    *)
(***************************************************************************)
C10_AdjustFromOwnRead ==
    \A p \in procs :
        /\ Cardinality(Calls(p, "describe_stream_summary")) <= 1
        /\ \A i \in Increases(p) : current[p] < Desired(p) /\ log[p][i].hours = Desired(p)
        /\ \A i \in Decreases(p) : current[p] > Desired(p) /\ log[p][i].hours = Desired(p)
        /\ (pc[p] \in {"put", "done"} /\ current[p] # Desired(p)) => Adjusts(p) # {}

C10_Witness ==
    \E p \in procs, q \in procs :
        /\ p # q
        /\ AdjustSucceeded(q)
        /\ current[p] = current[q]
        /\ current[p] # Desired(p)
        /\ \E i \in Adjusts(p) : log[p][i].atRetention = Desired(p)

====
